---- MODULE Spec2Model ----
(***************************************************************************)
(* Model of src/app/page.tsx: the FileUpload component.                    *)
(*                                                                         *)
(* The component keeps two pieces of React state, `files` and `preview`.   *)
(* Handlers never write the state directly: they hand React an updater     *)
(* (setFiles(prev => ...)) or a value (setPreview(v)), and React applies   *)
(* what is pending, in order, at the next render.  After a render that     *)
(* changed `files`, the effect of lines 123-171 is cleaned up (every       *)
(* interval of the previous run is cleared) and run again (one interval    *)
(* per file that is simulating and below 100).                             *)
(***************************************************************************)
EXTENDS Integers, Sequences, FiniteSets, TLC

\* ---------------------------------------------------------------- bounds
MaxAdds == 2        \* files handed to the component in one run
MaxQueue == 2       \* updaters pending between two renders
NumIds == 2         \* distinct strings Math.random() can yield in the model
ClockStep == 250    \* granularity of the model clock, in timer units
MaxPeriods == 10    \* cadence firings counted by the clocked specification

\* ------------------------------------------------------ program constants
TickInterval == 500
ProgressStep == 10
ProgressDone == 100

Ids == 1..NumIds

VARIABLES
  files,           \* committed value of the `files` state
  aborted,         \* AbortControllers whose signal is aborted
  ids,             \* id given to the k-th file added (k = its controller)
  queue,           \* updaters handed to setFiles and not yet applied
  preview,         \* committed value of the `preview` state: <<>> is null
  pendingPreview,  \* last value handed to setPreview and not yet applied
  reads,           \* files a FileReader is still reading
  timers,          \* live intervals of the last effect run
  due,             \* live intervals whose period elapsed, callback not run
  elapsed,         \* time since the live intervals were created
  removed,         \* ids whose session a removeFile took out of `files`
  clock            \* cadence firings so far (clocked specification only)

vars == <<files, aborted, ids, queue, preview, pendingPreview, reads,
          timers, due, elapsed, removed, clock>>

\* ------------------------------------------------------------ data model
\* interface FileWithProgress.  `ctrl` is the identity of the session's
\* AbortController: the k-th controller constructed.  `file` is the File.
FileWithProgress(file, id, ctrl) ==
  [file |-> file, id |-> id, progress |-> 0, status |-> "uploading",
   isSimulating |-> TRUE, abortController |-> ctrl]

\* Array.prototype.findIndex(item => item.id === id), 1-based; 0 for -1.
FindIndex(fs, id) ==
  IF \E i \in 1..Len(fs) : fs[i].id = id
  THEN CHOOSE i \in 1..Len(fs) :
         fs[i].id = id /\ \A j \in 1..(i - 1) : fs[j].id # id
  ELSE 0

\* Array.prototype.filter(item => item.id !== id)
RECURSIVE FilterOut(_, _)
FilterOut(fs, id) ==
  IF fs = <<>> THEN <<>>
  ELSE IF Head(fs).id = id THEN FilterOut(Tail(fs), id)
       ELSE <<Head(fs)>> \o FilterOut(Tail(fs), id)

\* ------------------------------------------------------------- updaters
\* The state an updater runs against: the array React passes as `prev`,
\* the abort signals it can reach, and the record of removals.
St(fs, ab, rm) == [files |-> fs, aborted |-> ab, removed |-> rm]

\* a variant of addFile that puts the new file first: [newFile, ...prev]
AddUpdater_Prepend(st, item) ==
  [st EXCEPT !.files = <<item>> \o st.files]

\* addFile: prev => [...prev, newFile]
AddUpdater(st, item) ==
  [st EXCEPT !.files = Append(st.files, item)]

\* removeFile: abort the first match, then filter every match out
RemoveUpdater(st, id) ==
  LET i == FindIndex(st.files, id) IN
  IF i = 0 THEN st
  ELSE [files |-> FilterOut(st.files, id),
        aborted |-> st.aborted \cup {st.files[i].abortController},
        removed |-> st.removed \cup {id}]

\* a variant of cancelUpload that resumes an upload it finds cancelled
CancelUpdater_Toggle(st, id) ==
  LET i == FindIndex(st.files, id) IN
  IF i = 0 THEN st
  ELSE [st EXCEPT
          !.aborted = @ \cup {st.files[i].abortController},
          !.files[i] = [@ EXCEPT
                          !.status = IF @ = "error" THEN "uploading"
                                     ELSE "error",
                          !.isSimulating = FALSE,
                          !.progress = 0]]

\* cancelUpload: abort the first match and overwrite its record
CancelUpdater(st, id) ==
  LET i == FindIndex(st.files, id) IN
  IF i = 0 THEN st
  ELSE [st EXCEPT
          !.aborted = @ \cup {st.files[i].abortController},
          !.files[i] = [@ EXCEPT !.status = "error",
                                 !.isSimulating = FALSE,
                                 !.progress = 0]]

\* a variant of the interval callback's updater that does not look at the
\* abort signal
TickUpdater_NoAbortCheck(st, id, ctrl) ==
  LET i == FindIndex(st.files, id) IN
  IF i = 0 THEN st
  ELSE LET newProgress == st.files[i].progress + ProgressStep IN
       IF newProgress >= ProgressDone
       THEN [st EXCEPT !.files[i] =
               [@ EXCEPT !.progress = ProgressDone,
                         !.status = "done",
                         !.isSimulating = FALSE]]
       ELSE [st EXCEPT !.files[i] = [@ EXCEPT !.progress = newProgress]]

\* a variant of the interval callback's updater that starts over at 0 when
\* the upload completes
TickUpdater_ResetOnDone(st, id, ctrl) ==
  LET i == FindIndex(st.files, id) IN
  IF i = 0 THEN st
  ELSE IF ctrl \in st.aborted
       THEN [st EXCEPT !.files =
               [j \in 1..Len(st.files) |->
                  IF st.files[j].id = id
                  THEN [st.files[j] EXCEPT !.isSimulating = FALSE]
                  ELSE st.files[j]]]
       ELSE LET newProgress == st.files[i].progress + ProgressStep IN
            IF newProgress >= ProgressDone
            THEN [st EXCEPT !.files[i] =
                    [@ EXCEPT !.progress = 0,
                              !.status = "done",
                              !.isSimulating = FALSE]]
            ELSE [st EXCEPT !.files[i] = [@ EXCEPT !.progress = newProgress]]

\* the interval callback's updater; `id` and `ctrl` are those of the
\* fileItem the effect closed over
TickUpdater(st, id, ctrl) ==
  LET i == FindIndex(st.files, id) IN
  IF i = 0 THEN st
  ELSE IF ctrl \in st.aborted
       THEN [st EXCEPT !.files =
               [j \in 1..Len(st.files) |->
                  IF st.files[j].id = id
                  THEN [st.files[j] EXCEPT !.isSimulating = FALSE]
                  ELSE st.files[j]]]
       ELSE LET newProgress == st.files[i].progress + ProgressStep IN
            IF newProgress >= ProgressDone
            THEN [st EXCEPT !.files[i] =
                    [@ EXCEPT !.progress = ProgressDone,
                              !.status = "done",
                              !.isSimulating = FALSE]]
            ELSE [st EXCEPT !.files[i] = [@ EXCEPT !.progress = newProgress]]

ApplyUpdater(st, u) ==
  CASE u.kind = "add"    -> AddUpdater(st, u.item)
    [] u.kind = "remove" -> RemoveUpdater(st, u.id)
    [] u.kind = "cancel" -> CancelUpdater(st, u.id)
    [] u.kind = "tick"   -> TickUpdater(st, u.id, u.ctrl)

\* React runs the pending updaters in the order they were handed over
RECURSIVE ApplyAll(_, _)
ApplyAll(st, q) ==
  IF q = <<>> THEN st ELSE ApplyAll(ApplyUpdater(st, Head(q)), Tail(q))

\* the effect body: one interval per file that is simulating and below 100
EffectTimers(fs) ==
  {[id |-> fs[i].id, ctrl |-> fs[i].abortController] :
     i \in {j \in 1..Len(fs) :
              fs[j].isSimulating /\ fs[j].progress < ProgressDone}}

\* ------------------------------------------------------------------ Init
Init ==
  /\ files = <<>>
  /\ aborted = {}
  /\ ids = <<>>
  /\ queue = <<>>
  /\ preview = <<>>
  /\ pendingPreview = <<>>
  /\ reads = {}
  /\ timers = {}
  /\ due = {}
  /\ elapsed = 0
  /\ removed = {}
  /\ clock = 0

\* --------------------------------------------------------------- actions
IdsOf(fs) == {fs[i].id : i \in 1..Len(fs)}

\* what the registry will hold once the pending updaters are applied
Logical == ApplyAll(St(files, aborted, removed), queue)

\* a row of the rendered table shows the id
Displayed(id) == id \in IdsOf(files)

\* the id of no session, rendered or about to be: what a caller holds that
\* kept an id past the session's removal, or never had a session's id
Unknown(id) == id \notin IdsOf(files) /\ id \notin IdsOf(Logical.files)

\* generatePreview(file): an image is read asynchronously, anything else
\* clears the preview
GeneratePreview(file) ==
  IF file.image
  THEN /\ reads' = reads \cup {file.n}
       /\ UNCHANGED pendingPreview
  ELSE /\ pendingPreview' = << <<>> >>
       /\ UNCHANGED reads

\* handleChange / handleDrop: addFile(file); generatePreview(file)
HandleChange(id, image) ==
  /\ Len(ids) < MaxAdds
  /\ Len(queue) < MaxQueue
  /\ LET ctrl == Len(ids) + 1
         file == [n |-> ctrl, image |-> image]
     IN /\ queue' = Append(queue, [kind |-> "add",
                                   item |-> FileWithProgress(file, id, ctrl)])
        /\ GeneratePreview(file)
  /\ ids' = Append(ids, id)
  /\ UNCHANGED <<files, aborted, preview, timers, due, elapsed, removed, clock>>

\* reader.onload = () => setPreview(reader.result)
ReaderLoad(n) ==
  /\ n \in reads
  /\ reads' = reads \ {n}
  /\ pendingPreview' = << <<n>> >>
  /\ UNCHANGED <<files, aborted, ids, queue, preview, timers, due, elapsed,
                 removed, clock>>

\* removeFile(id); `files` in the handler is the value of the last render.
\* The button is in the row of a rendered file (lines 277-282).
RemoveFile(id) ==
  /\ Len(queue) < MaxQueue
  /\ Displayed(id) \/ Unknown(id)
  /\ queue' = Append(queue, [kind |-> "remove", id |-> id])
  /\ pendingPreview' = IF Len(files) = 1 THEN << <<>> >> ELSE pendingPreview
  /\ UNCHANGED <<files, aborted, ids, preview, reads, timers, due, elapsed,
                 removed, clock>>

\* cancelUpload(id).  The button exists only in the row of a file whose
\* status is 'uploading' (lines 310-317).
CancelUpload(id) ==
  /\ Len(queue) < MaxQueue
  /\ \/ \E i \in 1..Len(files) :
          files[i].id = id /\ files[i].status = "uploading"
     \/ Unknown(id)
  /\ queue' = Append(queue, [kind |-> "cancel", id |-> id])
  /\ UNCHANGED <<files, aborted, ids, preview, pendingPreview, reads, timers,
                 due, elapsed, removed, clock>>

\* time passes while nothing is pending; at TickInterval every live interval
\* becomes due
Advance(count) ==
  /\ timers # {}
  /\ queue = <<>> /\ pendingPreview = <<>> /\ due = {}
  /\ IF elapsed + ClockStep >= TickInterval
     THEN /\ elapsed' = 0
          /\ due' = timers
          /\ IF count THEN clock < MaxPeriods /\ clock' = clock + 1
                      ELSE UNCHANGED clock
     ELSE /\ elapsed' = elapsed + ClockStep
          /\ UNCHANGED <<due, clock>>
  /\ UNCHANGED <<files, aborted, ids, queue, preview, pendingPreview, reads,
                 timers, removed>>

\* the callback of a due interval: setFiles(prev => ...).  Intervals of one
\* effect run have the same delay and fire in the order they were created.
TimerCallback(t) ==
  /\ t \in due
  /\ \A u \in due : u.ctrl >= t.ctrl
  /\ Len(queue) < MaxQueue
  /\ due' = due \ {t}
  /\ queue' = Append(queue, [kind |-> "tick", id |-> t.id, ctrl |-> t.ctrl])
  /\ UNCHANGED <<files, aborted, ids, preview, pendingPreview, reads, timers,
                 elapsed, removed, clock>>

\* a render: pending updaters and the pending preview are applied; when
\* `files` was set, the effect is cleaned up and run again
Render ==
  /\ queue # <<>> \/ pendingPreview # <<>>
  /\ LET st == ApplyAll(St(files, aborted, removed), queue) IN
       /\ files' = st.files
       /\ aborted' = st.aborted
       /\ removed' = st.removed
       /\ IF queue # <<>>
          THEN /\ timers' = EffectTimers(st.files)
               /\ due' = {}
               /\ elapsed' = 0
          ELSE UNCHANGED <<timers, due, elapsed>>
  /\ preview' = IF pendingPreview # <<>> THEN pendingPreview[1] ELSE preview
  /\ queue' = <<>>
  /\ pendingPreview' = <<>>
  /\ UNCHANGED <<ids, reads, clock>>

Tick == Advance(FALSE)

Next ==
  \/ \E id \in Ids, image \in BOOLEAN : HandleChange(id, image)
  \/ \E n \in 1..MaxAdds : ReaderLoad(n)
  \/ \E id \in Ids : RemoveFile(id)
  \/ \E id \in Ids : CancelUpload(id)
  \/ Tick
  \/ \E t \in due : TimerCallback(t)
  \/ Render

Spec == Init /\ [][Next]_vars

\* ------------------------------------------------ further specifications
\* ids Math.random() has not produced before in this run
FreshIds == Ids \ {ids[k] : k \in 1..Len(ids)}

\* The runs of Spec in which no two calls of Math.random() collide.
NextDistinct ==
  \/ \E id \in FreshIds, image \in BOOLEAN : HandleChange(id, image)
  \/ \E n \in 1..MaxAdds : ReaderLoad(n)
  \/ \E id \in Ids : RemoveFile(id)
  \/ \E id \in Ids : CancelUpload(id)
  \/ Tick
  \/ \E t \in due : TimerCallback(t)
  \/ Render

SpecDistinct == Init /\ [][NextDistinct]_vars

\* The runs of the scenario "files are added, then the clock is advanced":
\* every file is added before the first firing of the cadence, ids do not
\* collide, no command follows, and the firings are counted.
ClockTick == Advance(TRUE)

NextClock ==
  \/ \E id \in FreshIds, image \in BOOLEAN : clock = 0 /\ HandleChange(id, image)
  \/ \E n \in 1..MaxAdds : ReaderLoad(n)
  \/ ClockTick
  \/ \E t \in due : TimerCallback(t)
  \/ Render

SpecClock == Init /\ [][NextClock]_vars
\* ------------------------------------------------------ helper predicates
\* the records of `fs` that belong to the session owning controller c
SessionsOf(fs, c) == {i \in 1..Len(fs) : fs[i].abortController = c}

\* ------------------------------------------------------------------ C1
\* C1: a session whose upload was cancelled reads progress 0, status error,
\* not simulating, and no step taken afterwards (in particular no render
\* that applies a tick) changes its progress or its status while it stays
\* in the registry.
C1_CancelFreezes ==
  [][\A i \in 1..Len(files) :
       files[i].status = "error" =>
         /\ files[i].progress = 0
         /\ ~files[i].isSimulating
         /\ \A j \in SessionsOf(files', files[i].abortController) :
              /\ files'[j].progress = 0
              /\ files'[j].status = "error"]_vars

\* ------------------------------------------------------------------ C5
\* C5: the ids addFile has assigned are pairwise distinct, and so are the
\* ids of the sessions in the registry.
C5_UniqueIds ==
  /\ \A i, j \in 1..Len(ids) : i # j => ids[i] # ids[j]
  /\ \A i, j \in 1..Len(files) : i # j => files[i].id # files[j].id

\* ------------------------------------------------------------------ C2
\* C2: a session that is never cancelled shows the progress values 0, 10,
\* ..., 100: every change of its progress is one step of ProgressStep, it
\* is done exactly when its progress is 100, it stops simulating then, and
\* once it is done no interval remains whose tick would be applied to it.
C2_TenSteps ==
  [][\A i \in 1..Len(files) :
       LET f == files[i] IN
       f.abortController \notin aborted' =>
         /\ f.progress % ProgressStep = 0
         /\ (f.status = "done") = (f.progress = ProgressDone)
         /\ f.status = "done" =>
              /\ ~f.isSimulating
              /\ \A t \in timers : FindIndex(files, t.id) # i
         /\ \A j \in SessionsOf(files', f.abortController) :
              \/ files'[j].progress = f.progress
              \/ files'[j].progress = f.progress + ProgressStep]_vars

\* ------------------------------------------------------------------ C4
\* C4: once removeFile has taken the sessions of an id out of the registry,
\* the registry never holds that id again, and a render that applies only
\* ticks of intervals whose session is gone changes no record.
StaleTicksOnly ==
  /\ queue # <<>>
  /\ \A k \in 1..Len(queue) :
       /\ queue[k].kind = "tick"
       /\ SessionsOf(files, queue[k].ctrl) = {}

C4_RemovalIsFinal ==
  [][/\ \A i \in 1..Len(files') : files'[i].id \notin removed'
     /\ StaleTicksOnly => files' = files]_vars

\* ------------------------------------------------------------------ C7
\* C7: a session that is done keeps status done and progress 100 for as
\* long as it stays in the registry.
C7_DoneIsFinal ==
  [][\A i \in 1..Len(files) :
       files[i].status = "done" =>
         /\ files[i].progress = ProgressDone
         /\ \A j \in SessionsOf(files', files[i].abortController) :
              /\ files'[j].status = "done"
              /\ files'[j].progress = ProgressDone]_vars

\* ------------------------------------------------------------------ C3
\* C3: two sessions that upload together are both done, at progress 100,
\* once the cadence has fired ProgressDone / ProgressStep times and nothing
\* is pending any more.
PeriodsToDone == ProgressDone \div ProgressStep

C3_BothDoneAfterTenPeriods ==
  (Len(files) = 2 /\ clock >= PeriodsToDone /\ queue = <<>> /\ due = {}) =>
    \A i \in 1..Len(files) :
      files[i].status = "done" /\ files[i].progress = ProgressDone

\* ------------------------------------------------------------------ C6
\* C6: cancelling the same id twice gives the registry that cancelling it
\* once gives: for the updater run against the committed registry, and for
\* a render that applies two successive cancelUpload calls for one id.
DoubleCancel ==
  /\ Len(queue) = 2
  /\ queue[1].kind = "cancel"
  /\ queue[2] = queue[1]

C6_CancelIdempotent ==
  [][LET st == St(files, aborted, removed) IN
     /\ \A id \in Ids :
          CancelUpdater(CancelUpdater(st, id), id) = CancelUpdater(st, id)
     /\ (DoubleCancel /\ queue' = <<>>) =>
          /\ files' = CancelUpdater(st, queue[1].id).files
          /\ aborted' = CancelUpdater(st, queue[1].id).aborted]_vars

\* two cancelUpload calls for an uploading session that has progressed are
\* pending
C6_Witness ==
  /\ DoubleCancel
  /\ \E i \in 1..Len(files) :
       /\ files[i].id = queue[1].id
       /\ files[i].status = "uploading"
       /\ files[i].progress > 0
       /\ files[i].abortController \notin aborted

\* ------------------------------------------------------------------ C8
\* C8: a removeFile or cancelUpload whose id the registry does not hold
\* changes nothing: the call leaves the preview as it is, and the render
\* that applies it leaves the records, their order, the abort signals and
\* the schedule of the live intervals as they are.
\* the value the preview has once the pending write is applied
PreviewAfter(p, pending) == IF pending # <<>> THEN pending[1] ELSE p

AbsentCommandsOnly ==
  /\ queue # <<>>
  /\ \A k \in 1..Len(queue) :
       /\ queue[k].kind \in {"remove", "cancel"}
       /\ queue[k].id \notin IdsOf(files)

C8_AbsentIdIsNoOp ==
  [][/\ \A id \in Ids \ IdsOf(Logical.files) :
          \/ queue' = Append(queue, [kind |-> "remove", id |-> id])
          \/ queue' = Append(queue, [kind |-> "cancel", id |-> id])
          => PreviewAfter(preview', pendingPreview')
               = PreviewAfter(preview, pendingPreview)
     /\ (AbsentCommandsOnly /\ queue' = <<>>) =>
          /\ files' = files
          /\ aborted' = aborted
          /\ timers' = timers
          /\ due' = due
          /\ elapsed' = elapsed]_vars

\* ------------------------------------------------------------------ C9
\* C9: while the registry is empty after a removal and nothing is pending,
\* the preview is absent; and a removeFile call clears the preview only if
\* the registry is empty once that removal is applied.
C9_PreviewClearedWhenEmpty ==
  [][/\ (files' = <<>> /\ removed' # {} /\ queue' = <<>>
           /\ pendingPreview' = <<>>) => preview' = <<>>
     /\ \A id \in Ids :
          (/\ queue' = Append(queue, [kind |-> "remove", id |-> id])
           /\ pendingPreview' = << <<>> >>
           /\ PreviewAfter(preview, pendingPreview) # <<>>)
          => ApplyAll(St(files, aborted, removed), queue').files = <<>>]_vars

\* ----------------------------------------------------------------- C10
\* C10: a render that applies one addFile appends the new session, with
\* progress 0, status uploading, simulating and an unaborted controller,
\* after the sessions already there, which it leaves as they are; and the
\* sessions of the registry are always in the order they were added.
C10_AddAppends ==
  [][/\ (Len(queue) = 1 /\ queue[1].kind = "add" /\ queue' = <<>>) =>
          /\ Len(files') = Len(files) + 1
          /\ SubSeq(files', 1, Len(files)) = files
          /\ LET new == files'[Len(files')] IN
               /\ new.id = queue[1].item.id
               /\ new.progress = 0
               /\ new.status = "uploading"
               /\ new.isSimulating
               /\ new.abortController \notin aborted'
               /\ \A i \in 1..Len(files) :
                    files[i].abortController # new.abortController
     /\ \A i, j \in 1..Len(files') :
          i < j => files'[i].abortController < files'[j].abortController]_vars

\* a second session was appended behind one that had already progressed
C10_Witness ==
  /\ Len(files) = 2
  /\ files[1].progress > 0
  /\ files[2].progress = 0
  /\ files[2].status = "uploading"
  /\ files[2].isSimulating
  /\ files[2].abortController \notin aborted
  /\ queue = <<>>

\* ----------------------------------------------------------------- C11
\* C11: a render that applies only ticks and cancelUpload calls keeps the
\* sequence of ids of the registry, and leaves alone every session that is
\* neither the owner of one of the ticking intervals nor named by one of
\* the cancelUpload calls: its record and its abort signal are unchanged.
TicksAndCancelsOnly ==
  /\ queue # <<>>
  /\ \A k \in 1..Len(queue) : queue[k].kind \in {"tick", "cancel"}

\* the updater u is a tick of the interval of session f, or a cancelUpload
\* of the id of f
Concerns(u, f) ==
  \/ u.kind = "tick" /\ u.ctrl = f.abortController
  \/ u.kind = "cancel" /\ u.id = f.id

C11_OnlyOwnRecord ==
  [][(TicksAndCancelsOnly /\ queue' = <<>>) =>
       /\ Len(files') = Len(files)
       /\ \A i \in 1..Len(files) :
            /\ files'[i].id = files[i].id
            /\ (\A k \in 1..Len(queue) : ~Concerns(queue[k], files[i])) =>
                 /\ files'[i] = files[i]
                 /\ (files[i].abortController \in aborted')
                      = (files[i].abortController \in aborted)]_vars

\* ----------------------------------------------------------------- C12
\* C12: once no FileReader is reading and nothing is pending, the preview
\* is the data of the file added last if that file is an image, and is
\* absent if it is not (stated for the runs in which the file added last is
\* still in the registry).
C12_PreviewIsOfLastFile ==
  (reads = {} /\ queue = <<>> /\ pendingPreview = <<>>) =>
    \A i \in 1..Len(files) :
      files[i].file.n = Len(ids) =>
        preview = IF files[i].file.image THEN <<files[i].file.n>> ELSE <<>>

\* ----------------------------------------------------------------- C13
\* C13: the live intervals are exactly one per session that is simulating
\* with status uploading, each owned by a session of the registry, only a
\* live interval is due, and no render raises the progress of a session by
\* more than one step (time advances only when nothing is pending, so a
\* render applies the ticks of at most one period).
Active(f) == f.isSimulating /\ f.status = "uploading"

C13_OneTickPerSession ==
  [][/\ \A i \in 1..Len(files) :
          Cardinality({t \in timers : t.ctrl = files[i].abortController})
            = IF Active(files[i]) THEN 1 ELSE 0
     /\ \A t \in timers : SessionsOf(files, t.ctrl) # {}
     /\ due \subseteq timers
     /\ \A i \in 1..Len(files) :
          \A j \in SessionsOf(files', files[i].abortController) :
            files'[j].progress <= files[i].progress + ProgressStep]_vars

\* ----------------------------------------------------------------- C14
\* C14: a render that applies only updaters which concern other sessions
\* (their ticks, their cancelUpload or removeFile, the addFile of another
\* file) leaves the pending tick of a session as it is: its interval stays
\* live, stays due if it was due, and the time it has waited is kept.
ConcernsSession(u, f) ==
  \/ u.kind = "tick" /\ u.ctrl = f.abortController
  \/ u.kind \in {"cancel", "remove"} /\ u.id = f.id
  \/ u.kind = "add" /\ u.item.abortController = f.abortController

C14_TickTaskNotRecreated ==
  [][(queue # <<>> /\ queue' = <<>>) =>
       \A i \in 1..Len(files) :
         LET mine == {t \in timers : t.ctrl = files[i].abortController} IN
         (/\ mine # {}
          /\ \A k \in 1..Len(queue) : ~ConcernsSession(queue[k], files[i]))
         => /\ mine \subseteq timers'
            /\ mine \cap due \subseteq due'
            /\ elapsed' = elapsed]_vars

\* ----------------------------------------------------------------- C15
\* The scheduling the browser and React guarantee: time passes and a live
\* interval fires, the callback of a due interval runs, a pending update is
\* rendered, a started read completes.
Fairness ==
  /\ WF_vars(Tick)
  /\ WF_vars(\E t \in due : TimerCallback(t))
  /\ WF_vars(Render)
  /\ WF_vars(\E n \in 1..MaxAdds : ReaderLoad(n))

SpecFair == Spec /\ Fairness

SpecDistinctFair == SpecDistinct /\ Fairness

\* a step in which addFile, removeFile or cancelUpload is called
Command ==
  /\ Len(queue') = Len(queue) + 1
  /\ queue'[Len(queue')].kind \in {"add", "remove", "cancel"}

DoneAt100(c) ==
  \E i \in SessionsOf(files, c) :
    files[i].status = "done" /\ files[i].progress = ProgressDone

\* C15: if commands stop at some point, every session of the registry is
\* eventually done at progress 100, unless it is cancelled or removed.
C15_EventuallyDone ==
  <>[][~Command]_vars =>
    \A c \in 1..MaxAdds :
      (SessionsOf(files, c) # {}) ~>
        (DoneAt100(c) \/ c \in aborted \/ SessionsOf(files, c) = {})

\* ----------------------------------------------------------------- C16
\* the state the k-th pending updater runs against
Before(k) == ApplyAll(St(files, aborted, removed), SubSeq(queue, 1, k - 1))

\* the k-th pending updater is a tick whose session is in the registry it
\* runs against, with its controller already aborted
AbortedTick(k) ==
  /\ queue[k].kind = "tick"
  /\ queue[k].ctrl \in Before(k).aborted
  /\ SessionsOf(Before(k).files, queue[k].ctrl) # {}

\* C16: in a render, a tick applied to a session of the registry whose
\* controller is already aborted leaves the progress and the status of that
\* session as they were and clears its isSimulating, and no interval of
\* that session is live after the render.
C16_AbortedTickOnlyStops ==
  [][(queue # <<>> /\ queue' = <<>>) =>
       \A k \in 1..Len(queue) :
         AbortedTick(k) =>
           LET pre == Before(k).files
               post == ApplyUpdater(Before(k), queue[k]).files
           IN /\ Len(post) = Len(pre)
              /\ \A j \in SessionsOf(pre, queue[k].ctrl) :
                   /\ post[j].progress = pre[j].progress
                   /\ post[j].status = pre[j].status
                   /\ ~post[j].isSimulating
              /\ \A t \in timers' : t.ctrl # queue[k].ctrl]_vars

\* a tick of a session follows the cancelUpload of that session in the
\* pending updaters
C16_Witness ==
  /\ Len(queue) = 2
  /\ queue[1].kind = "cancel"
  /\ AbortedTick(2)
  /\ \E i \in SessionsOf(files, queue[2].ctrl) :
       files[i].progress > 0 /\ files[i].abortController \notin aborted

\* ----------------------------------------------------------------- C17
\* C17: the progress of every session is a whole number from 0 to 100; a
\* step lowers the progress of a session only if it renders a cancelUpload
\* of that session's id; and among the updaters a render applies, only a
\* cancelUpload of the session's id lowers its progress, and it leaves 0.
C17_ProgressRange ==
  [][/\ \A i \in 1..Len(files') : files'[i].progress \in 0..ProgressDone
     /\ \A i \in 1..Len(files) :
          \A j \in SessionsOf(files', files[i].abortController) :
            files'[j].progress < files[i].progress =>
              \E k \in 1..Len(queue) :
                queue[k].kind = "cancel" /\ queue[k].id = files[i].id
     /\ (queue # <<>> /\ queue' = <<>>) =>
          \A k \in 1..Len(queue) :
            LET pre == Before(k).files
                post == ApplyUpdater(Before(k), queue[k]).files
            IN \A i \in 1..Len(pre) :
                 \A j \in SessionsOf(post, pre[i].abortController) :
                   post[j].progress < pre[i].progress =>
                     /\ queue[k].kind = "cancel"
                     /\ queue[k].id = pre[i].id
                     /\ post[j].progress = 0]_vars

\* a session that had progressed was cancelled and reads 0 while another
\* session has progressed
C17_Witness ==
  /\ queue = <<>>
  /\ \E i, j \in 1..Len(files) :
       /\ files[i].status = "error" /\ files[i].progress = 0
       /\ files[j].status = "uploading" /\ files[j].progress > ProgressStep

\* ----------------------------------------------------------------- C18
\* C18: every record of the registry is consistent: status done exactly
\* when progress is 100; status error implies progress 0 and not
\* simulating; simulating implies status uploading and progress below 100.
C18_NoTornRecord ==
  \A i \in 1..Len(files) :
    LET f == files[i] IN
    /\ (f.status = "done") = (f.progress = ProgressDone)
    /\ f.status = "error" => (f.progress = 0 /\ ~f.isSimulating)
    /\ f.isSimulating => (f.status = "uploading" /\ f.progress < ProgressDone)

\* ----------------------------------------------------------------- C19
\* C19: the controller of a session of the registry is aborted exactly when
\* the session's status is error; an aborted controller stays aborted; and
\* a session keeps the controller that addFile constructed for its file.
C19_HandleMatchesStatus ==
  [][/\ \A i \in 1..Len(files') :
          /\ (files'[i].abortController \in aborted')
               = (files'[i].status = "error")
          /\ files'[i].abortController = files'[i].file.n
     /\ aborted \subseteq aborted']_vars
====
